---- MODULE Spec2Model ----
(***************************************************************************)
(* A model of the object database (src/src/odb.c) and of the repository    *)
(* object cache (src/src/repository.c) of libgit2.                         *)
(*                                                                         *)
(* SHA-1 is taken to be injective: a digest is represented by the          *)
(* pre-image that git_odb__hash_obj feeds to the hash (the formatted       *)
(* header and the payload bytes).  The all-zero oid that memset leaves in  *)
(* a fresh object has no pre-image.                                        *)
(***************************************************************************)
EXTENDS Integers, Sequences, FiniteSets, TLC

VARIABLES
    backends,     \* backend id -> the git_odb_backend object
    dbBackends,   \* odb id -> db->backends, the vector of backend ids
    inserted,     \* odb id -> the backends in the order git_vector_insert took them
    objs,         \* object handle -> the git_object behind it
    cache,        \* repo->objects: digest -> object handle, or NoObject
    last,         \* the call that returned last: its arguments and results
    running,      \* FALSE once undefined behaviour has ended the process
    source        \* a git_odb_source under git__source_write / _printf

odbVars == <<backends, dbBackends, inserted>>
repoVars == <<objs, cache>>
vars == <<backends, dbBackends, inserted, objs, cache, last, running, source>>

\* A source slot that is not open.
NullPtr == 0 - 1
ClosedSource ==
    [open |-> FALSE, data |-> <<>>, len |-> 0, written_bytes |-> 0,
     write_ptr |-> NullPtr]

(***************************************************************************)
(* Bounds of the model.                                                    *)
(***************************************************************************)
MaxBackends == 2
MaxPayloadLen == 1
MaxObjects == 2
IntBits == 3

(***************************************************************************)
(* Error codes.  The code tests `error < 0`; every code but GIT_SUCCESS is *)
(* negative.                                                               *)
(***************************************************************************)
GIT_SUCCESS == "GIT_SUCCESS"
GIT_ERROR == "GIT_ERROR"
GIT_ENOTFOUND == "GIT_ENOTFOUND"
GIT_ENOMEM == "GIT_ENOMEM"
GIT_EINVALIDTYPE == "GIT_EINVALIDTYPE"
GIT_EBUSY == "GIT_EBUSY"
GIT_ENOTAREPO == "GIT_ENOTAREPO"

Failed(error) == error # GIT_SUCCESS

(***************************************************************************)
(* Object types: the index into obj_type_table.                            *)
(***************************************************************************)
GIT_OBJ_COMMIT == 1
GIT_OBJ_TREE == 2
GIT_OBJ_BLOB == 3
GIT_OBJ_TAG == 4
GIT_OBJ_OFS_DELTA == 6
GIT_OBJ_ANY == 0 - 2

obj_type_table ==
    [i \in 0..7 |->
        CASE i = GIT_OBJ_COMMIT -> [str |-> "commit", loose |-> TRUE]
          [] i = GIT_OBJ_TREE -> [str |-> "tree", loose |-> TRUE]
          [] i = GIT_OBJ_BLOB -> [str |-> "blob", loose |-> TRUE]
          [] i = GIT_OBJ_TAG -> [str |-> "tag", loose |-> TRUE]
          [] i = GIT_OBJ_OFS_DELTA -> [str |-> "OFS_DELTA", loose |-> FALSE]
          [] i = 7 -> [str |-> "REF_DELTA", loose |-> FALSE]
          [] OTHER -> [str |-> "", loose |-> FALSE]]

git_otype_tostring(type) ==
    IF type < 0 \/ type >= 8 THEN "" ELSE obj_type_table[type].str

git_otype_is_loose(type) ==
    IF type < 0 \/ type >= 8 THEN FALSE ELSE obj_type_table[type].loose

(***************************************************************************)
(* Raw objects and digests.                                                *)
(***************************************************************************)
RECURSIVE SeqsUpTo(_, _)
SeqsUpTo(S, n) ==
    IF n = 0 THEN {<<>>}
    ELSE LET shorter == SeqsUpTo(S, n - 1)
         IN shorter \cup {Append(s, x) : s \in shorter, x \in S}

Payloads == SeqsUpTo({1}, MaxPayloadLen)

TypeInputs == {GIT_OBJ_TREE, GIT_OBJ_BLOB}

MkRaw(type, data) == [type |-> type, len |-> Len(data), data |-> data]

RawObjs == {MkRaw(t, p) : t \in TypeInputs, p \in Payloads}

\* A git_rawobj nothing has been read into.
NoRaw == [type |-> 0, len |-> 0, data |-> <<>>]

ZeroOid == [hdr |-> <<"", 0>>, body |-> <<>>]

format_object_header(obj) == <<git_otype_tostring(obj.type), obj.len>>

git_odb__hash_obj(obj) ==
    IF ~git_otype_is_loose(obj.type) THEN [error |-> GIT_ERROR, id |-> ZeroOid]
    ELSE IF obj.data = <<>> /\ obj.len # 0 THEN [error |-> GIT_ERROR, id |-> ZeroOid]
    ELSE [error |-> GIT_SUCCESS,
          id |-> [hdr |-> format_object_header(obj), body |-> obj.data]]

Digests == {git_odb__hash_obj(o).id : o \in RawObjs}
Oids == Digests \cup {ZeroOid}

(***************************************************************************)
(* Backends.  A backend is an opaque collaborator: it holds raw objects    *)
(* under their digests, fails every call while `failing`, and offers       *)
(* write and read_header only when it advertises them.                     *)
(***************************************************************************)
BackendIds == 1..MaxBackends
OdbIds == {1, 2}
NoOdb == 0

\* A backend's storage: the raw objects it holds.
EmptyStore == {}

\* The object a store holds under a digest, or NoRaw.
StoreGet(store, id) ==
    LET held == {o \in store : git_odb__hash_obj(o).id = id}
    IN IF held = {} THEN NoRaw ELSE CHOOSE o \in held : TRUE

IntMin == 0 - 2^(IntBits - 1)
IntMax == 2^(IntBits - 1) - 1
\* Two's-complement wrap of an int-width result.
WrapInt(x) == ((x - IntMin) % 2^IntBits) + IntMin

MkBackend(priority, hasWrite, hasHeader, hasFree) ==
    [odb |-> NoOdb, priority |-> priority, hasWrite |-> hasWrite,
     hasHeader |-> hasHeader, hasFree |-> hasFree, failing |-> FALSE,
     freed |-> 0, store |-> EmptyStore]

backend_read(b, id) ==
    IF b.failing THEN [error |-> GIT_ERROR, out |-> NoRaw]
    ELSE IF StoreGet(b.store, id) # NoRaw
         THEN [error |-> GIT_SUCCESS, out |-> StoreGet(b.store, id)]
    ELSE [error |-> GIT_ENOTFOUND, out |-> NoRaw]

backend_read_header(b, id) ==
    LET r == backend_read(b, id)
    IN [error |-> r.error, out |-> [r.out EXCEPT !.data = <<>>]]

backend_write(b, obj) ==
    LET h == git_odb__hash_obj(obj)
    IN IF b.failing \/ Failed(h.error)
       THEN [error |-> GIT_ERROR, id |-> ZeroOid, store |-> b.store]
       ELSE [error |-> GIT_SUCCESS, id |-> h.id,
             store |-> b.store \cup {obj}]

(***************************************************************************)
(* git_odb_read: the backends are probed in list order while error < 0.    *)
(***************************************************************************)
\* Mutant: the loop gives up after the first backend.
odb_read_continues_first_only(i, length, error) == i <= 1 /\ i <= length /\ Failed(error)

odb_read_continues(i, length, error) == i <= length /\ Failed(error)

RECURSIVE odb_read_loop(_, _, _, _, _)
odb_read_loop(bks, list, id, i, acc) ==
    IF ~odb_read_continues(i, Len(list), acc.error) THEN acc
    ELSE LET r == backend_read(bks[list[i]], id)
         IN odb_read_loop(bks, list, id, i + 1,
                [error |-> r.error,
                 out |-> IF Failed(r.error) THEN acc.out ELSE r.out,
                 calls |-> Append(acc.calls, list[i]),
                 errors |-> Append(acc.errors, r.error)])

git_odb_read(bks, list, id) ==
    odb_read_loop(bks, list, id, 1,
        [error |-> GIT_ENOTFOUND, out |-> NoRaw, calls |-> <<>>, errors |-> <<>>])

(***************************************************************************)
(* git_odb_write: only backends with a write hook are asked.               *)
(***************************************************************************)
\* Mutant: the loop does not stop at the first successful write.
odb_write_continues_after_success(i, length, error) == i <= length

odb_write_continues(i, length, error) == i <= length /\ Failed(error)

odb_write_asks(b) == b.hasWrite

RECURSIVE odb_write_loop(_, _, _, _)
odb_write_loop(list, obj, i, acc) ==
    IF ~odb_write_continues(i, Len(list), acc.error) THEN acc
    ELSE LET b == acc.bks[list[i]]
         IN IF ~odb_write_asks(b) THEN odb_write_loop(list, obj, i + 1, acc)
            ELSE LET r == backend_write(b, obj)
                 IN odb_write_loop(list, obj, i + 1,
                        [error |-> r.error,
                         id |-> IF Failed(r.error) THEN acc.id ELSE r.id,
                         bks |-> [acc.bks EXCEPT ![list[i]].store = r.store],
                         calls |-> Append(acc.calls, list[i]),
                         errors |-> Append(acc.errors, r.error)])

git_odb_write(bks, list, obj) ==
    odb_write_loop(list, obj, 1,
        [error |-> GIT_ERROR, id |-> ZeroOid, bks |-> bks,
         calls |-> <<>>, errors |-> <<>>])

(***************************************************************************)
(* git_odb_read_header: header-capable backends first, then a full read    *)
(* whose bytes are closed at once.  `outData` is the state of the caller's *)
(* out->data on entry: "uninit" (an indeterminate pointer) or "null".      *)
(***************************************************************************)
odb_read_header_continues(i, length, error) == i <= length /\ Failed(error)

RECURSIVE odb_read_header_loop(_, _, _, _, _)
odb_read_header_loop(bks, list, id, i, acc) ==
    IF ~odb_read_header_continues(i, Len(list), acc.error) THEN acc
    ELSE LET b == bks[list[i]]
         IN IF ~b.hasHeader THEN odb_read_header_loop(bks, list, id, i + 1, acc)
            ELSE LET r == backend_read_header(b, id)
                 IN odb_read_header_loop(bks, list, id, i + 1,
                        [error |-> r.error,
                         out |-> IF Failed(r.error) THEN acc.out ELSE r.out,
                         calls |-> Append(acc.calls, list[i])])

\* Whether the fallback calls git_rawobj_close(out) after git_odb_read.
read_header_closes(readError) == TRUE

git_odb_read_header(bks, list, id, outData) ==
    LET h == odb_read_header_loop(bks, list, id, 1,
                 [error |-> GIT_ENOTFOUND, out |-> NoRaw, calls |-> <<>>])
    IN IF ~Failed(h.error)
       THEN [error |-> h.error, type |-> h.out.type, len |-> h.out.len,
             bytes |-> <<>>, hcalls |-> h.calls, fallback |-> FALSE,
             readError |-> GIT_SUCCESS, rcalls |-> <<>>,
             filled |-> FALSE, released |-> 0, freedIndeterminate |-> FALSE]
       ELSE LET r == git_odb_read(bks, list, id)
                closes == read_header_closes(r.error)
            IN [error |-> r.error, type |-> r.out.type, len |-> r.out.len,
                \* the bytes the caller still holds when the call returns
                bytes |-> IF ~Failed(r.error) /\ ~closes THEN r.out.data ELSE <<>>,
                hcalls |-> h.calls, fallback |-> TRUE,
                readError |-> r.error, rcalls |-> r.calls,
                \* the read filled out->data with a fresh buffer
                filled |-> ~Failed(r.error),
                \* how often that buffer was freed
                released |-> IF ~Failed(r.error) /\ closes THEN 1 ELSE 0,
                \* free() was handed the caller's indeterminate out->data
                freedIndeterminate |->
                    Failed(r.error) /\ closes /\ outData = "uninit"]

(***************************************************************************)
(* git_odb_add_backend and the comparator of db->backends.                 *)
(***************************************************************************)
backend_sort_cmp(a, b) == WrapInt(b.priority - a.priority)

\* git_vector_sort: a stable sort of the vector by its comparator; the
\* element x is placed behind the last element that does not sort after it.
RECURSIVE vector_place(_, _, _, _)
vector_place(bks, sorted, x, j) ==
    IF j = 0 \/ backend_sort_cmp(bks[sorted[j]], bks[x]) <= 0
    THEN SubSeq(sorted, 1, j) \o <<x>> \o SubSeq(sorted, j + 1, Len(sorted))
    ELSE vector_place(bks, sorted, x, j - 1)

RECURSIVE vector_sort_from(_, _, _)
vector_sort_from(bks, list, sorted) ==
    IF list = <<>> THEN sorted
    ELSE vector_sort_from(bks, Tail(list),
             vector_place(bks, sorted, Head(list), Len(sorted)))

git_vector_sort(bks, list) == vector_sort_from(bks, list, <<>>)

add_backend_busy(b, db) == b.odb # NoOdb /\ b.odb # db

git_odb_add_backend(bks, list, db, b, insertOk) ==
    IF add_backend_busy(bks[b], db)
    THEN [error |-> GIT_EBUSY, bks |-> bks, list |-> list]
    ELSE LET bound == [bks EXCEPT ![b].odb = db]
         IN IF ~insertOk
            THEN [error |-> GIT_ENOMEM, bks |-> bound, list |-> list]
            ELSE [error |-> GIT_SUCCESS, bks |-> bound,
                  list |-> git_vector_sort(bound, Append(list, b))]

(***************************************************************************)
(* git_odb_close: every entry of db->backends is released, through its     *)
(* free hook or with free(); freed counts the releases of a backend.  A db *)
(* of NoOdb is a NULL pointer: git_odb_close asserts that it is not.       *)
(***************************************************************************)
\* How often a backend occurs in a backend list.
Occurrences(list, b) == Cardinality({i \in 1..Len(list) : list[i] = b})

git_odb_close(bks, list, db) ==
    [nullDb |-> db = NoOdb,
     bks |-> IF db = NoOdb THEN bks
             ELSE [b \in DOMAIN bks |->
                      [bks[b] EXCEPT !.freed = @ + Occurrences(list, b)]]]

(***************************************************************************)
(* The calls as actions.                                                   *)
(***************************************************************************)
\* What a call records of the call that returned before it.
Brief(l) == [op |-> l.op, error |-> l.error, id |-> l.id, obj |-> l.obj]

NoCall == [op |-> "none", error |-> GIT_SUCCESS, id |-> ZeroOid, obj |-> NoRaw]

\* An object database takes calls until git_odb_close.
OdbOpen == running /\ last.op # "odb_close"

Call_git_odb_add_backend(db, b, insertOk) ==
    /\ OdbOpen
    /\ Len(dbBackends[db]) < MaxBackends
    /\ \E r \in {git_odb_add_backend(backends, dbBackends[db], db, b, insertOk)} :
          /\ backends' = r.bks
          /\ dbBackends' = [dbBackends EXCEPT ![db] = r.list]
          /\ inserted' = IF Failed(r.error) THEN inserted
                         ELSE [inserted EXCEPT ![db] = Append(@, b)]
          /\ last' = [op |-> "add_backend", error |-> r.error, id |-> ZeroOid,
                      obj |-> NoRaw, db |-> db, backend |-> b]
    /\ UNCHANGED <<repoVars, running, source>>

\* The environment: a backend's storage starts or stops failing.
BackendFault(b) ==
    /\ running
    /\ backends' = [backends EXCEPT ![b].failing = ~@]
    /\ last' = [op |-> "fault", error |-> GIT_SUCCESS, id |-> ZeroOid,
                obj |-> NoRaw, backend |-> b]
    /\ UNCHANGED <<dbBackends, inserted, repoVars, running, source>>

Call_git_odb_read(db, id) ==
    /\ running
    /\ \E r \in {git_odb_read(backends, dbBackends[db], id)} :
          last' = [op |-> "odb_read", error |-> r.error, id |-> id, obj |-> NoRaw,
                   out |-> r.out, calls |-> r.calls, errors |-> r.errors,
                   follows |-> IF last.op = "odb_write" /\ ~Failed(last.error)
                               THEN Brief(last) ELSE Brief(NoCall)]
    /\ UNCHANGED <<odbVars, repoVars, running, source>>

Call_git_odb_write(db, obj) ==
    /\ running
    /\ \E r \in {git_odb_write(backends, dbBackends[db], obj)} :
          /\ backends' = r.bks
          /\ last' = [op |-> "odb_write", error |-> r.error, id |-> r.id,
                      obj |-> obj, calls |-> r.calls, errors |-> r.errors]
    /\ UNCHANGED <<dbBackends, inserted, repoVars, running, source>>

Call_git_odb_read_header(db, id, outData, crash) ==
    /\ running
    /\ \E r \in {git_odb_read_header(backends, dbBackends[db], id, outData)} :
          /\ last' = [op |-> "odb_read_header", error |-> r.error, id |-> id,
                      obj |-> NoRaw, outData |-> outData, res |-> r]
          \* freeing an indeterminate pointer is undefined: the process may
          \* die in free() or carry on
          /\ running' = ~(r.freedIndeterminate /\ crash)
    /\ UNCHANGED <<odbVars, repoVars, source>>

(***************************************************************************)
(* SpecOdb: one object database, its backends of every capability mix,     *)
(* and the dispatch calls on it.                                           *)
(***************************************************************************)
\* The objects written and looked for: they differ in type and in bytes.
OdbObjs == {MkRaw(GIT_OBJ_TREE, <<>>), MkRaw(GIT_OBJ_BLOB, <<1>>)}
OdbDigests == {git_odb__hash_obj(o).id : o \in OdbObjs}

InitOdb ==
    /\ \E caps \in [BackendIds -> BOOLEAN \X BOOLEAN] :
           backends = [b \in BackendIds |->
                          MkBackend(b, caps[b][1], caps[b][2], TRUE)]
    /\ dbBackends = [o \in OdbIds |-> <<>>]
    /\ inserted = [o \in OdbIds |-> <<>>]
    /\ objs = <<>>
    /\ cache = <<>>
    /\ last = NoCall
    /\ running = TRUE
    /\ source = ClosedSource

NextOdb ==
    \/ \E b \in BackendIds : Call_git_odb_add_backend(1, b, TRUE)
    \/ \E b \in BackendIds : BackendFault(b)
    \/ \E id \in OdbDigests : Call_git_odb_read(1, id)
    \/ \E o \in OdbObjs : Call_git_odb_write(1, o)
    \/ \E id \in OdbDigests, outData \in {"uninit", "null"}, crash \in BOOLEAN :
           Call_git_odb_read_header(1, id, outData, crash)

SpecOdb == InitOdb /\ [][NextOdb]_vars

(***************************************************************************)
(* Claims about the dispatch of the object database (SpecOdb).             *)
(***************************************************************************)
\* What a backend's read answers in the current state.
ReadAnswer(b, id) == backend_read(backends[b], id).error

\* C4: git_odb_read probes the backends in list order, stops at the first
\* success, and returns GIT_ENOTFOUND if and only if every backend of the
\* list reported GIT_ENOTFOUND.
C4_ReadNotFoundIffAllNotFound ==
    last.op = "odb_read" =>
        LET list == dbBackends[1]
            n == Len(last.calls)
        IN /\ n <= Len(list)
           /\ last.calls = SubSeq(list, 1, n)
           /\ \A i \in 1..n : last.errors[i] = ReadAnswer(list[i], last.id)
           /\ \A i \in 1..(n - 1) : Failed(last.errors[i])
           /\ (~Failed(last.error)) <=> (n > 0 /\ ~Failed(last.errors[n]))
           /\ (last.error = GIT_ENOTFOUND) <=>
                  (\A i \in 1..Len(list) : ReadAnswer(list[i], last.id) = GIT_ENOTFOUND)

\* The write-capable backends of a list, in list order.
WriteCapable(list) == SelectSeq(list, LAMBDA b : backends[b].hasWrite)

\* The prefix of the write-capable backends that ends with the first one
\* whose storage is not failing (all of them when every one fails).
RECURSIVE UpToFirstWorking(_)
UpToFirstWorking(w) ==
    IF w = <<>> THEN <<>>
    ELSE IF ~backends[Head(w)].failing THEN <<Head(w)>>
    ELSE <<Head(w)>> \o UpToFirstWorking(Tail(w))

\* C5: git_odb_write asks, in list order, only the backends that advertise
\* write, stops at the first one that succeeds (the object is stored by
\* exactly one call), goes on after a failure, and returns an error when no
\* backend advertises write or every write-capable backend fails.
C5_WriteFirstCapableBackend ==
    last.op = "odb_write" =>
        LET w == WriteCapable(dbBackends[1])
            n == Len(last.calls)
        IN /\ last.calls = UpToFirstWorking(w)
           /\ \A i \in 1..(n - 1) : Failed(last.errors[i])
           /\ (~Failed(last.error)) <=> (n > 0 /\ ~Failed(last.errors[n]))
           /\ ~Failed(last.error) =>
                  /\ Cardinality({i \in 1..n : ~Failed(last.errors[i])}) = 1
                  /\ StoreGet(backends[last.calls[n]].store, last.id) = last.obj
           /\ (w = <<>> \/ \A i \in 1..Len(w) : backends[w[i]].failing) =>
                  Failed(last.error)

\* C5's case: the first write-capable backend failed and the next one took
\* the object.
C5_Witness ==
    /\ last.op = "odb_write"
    /\ ~Failed(last.error)
    /\ Len(last.calls) = 2
    /\ Failed(last.errors[1])

\* C7: a git_odb_read of the digest that the git_odb_write just before it
\* returned succeeds and yields the written object's type, length and bytes.
C7_WriteReadRoundTrip ==
    (/\ last.op = "odb_read"
     /\ last.follows.op = "odb_write"
     /\ ~Failed(last.follows.error)
     /\ last.id = last.follows.id)
    => /\ ~Failed(last.error)
       /\ last.out.type = last.follows.obj.type
       /\ last.out.len = last.follows.obj.len
       /\ last.out.data = last.follows.obj.data

\* C7's case: the object is read back through a first backend that has no
\* write hook and does not hold it.
C7_Witness ==
    /\ last.op = "odb_read"
    /\ last.follows.op = "odb_write"
    /\ ~Failed(last.follows.error)
    /\ last.id = last.follows.id
    /\ Len(last.calls) = 2
    /\ ~backends[last.calls[1]].hasWrite
    /\ last.out.len > 0

\* C8: git_odb_read_header succeeds with the object's type and length when a
\* header-capable backend succeeds or the full read does; the bytes of the
\* full read are released exactly once and none reach the caller; when the
\* full read fails too its error is returned and nothing that was never
\* filled is released.
C8_ReadHeaderFallback ==
    last.op = "odb_read_header" =>
        LET r == last.res
            holders == {b \in BackendIds : StoreGet(backends[b].store, last.id) # NoRaw}
        IN /\ ~Failed(r.error) =>
                 /\ r.bytes = <<>>
                 /\ \E b \in holders :
                        /\ r.type = StoreGet(backends[b].store, last.id).type
                        /\ r.len = StoreGet(backends[b].store, last.id).len
           /\ (r.fallback /\ r.filled) => (~Failed(r.error) /\ r.released = 1)
           /\ (r.fallback /\ ~r.filled) =>
                 (r.error = r.readError /\ Failed(r.error) /\ ~r.freedIndeterminate)

(***************************************************************************)
(* SpecSort: two object databases and backends of every priority an int    *)
(* can hold, added in every order.                                         *)
(***************************************************************************)
Priorities == {IntMin, 0, 1, IntMax}

InitSort ==
    /\ \E prio \in [BackendIds -> Priorities], free \in [BackendIds -> BOOLEAN] :
           backends = [b \in BackendIds |-> MkBackend(prio[b], TRUE, TRUE, free[b])]
    /\ dbBackends = [o \in OdbIds |-> <<>>]
    /\ inserted = [o \in OdbIds |-> <<>>]
    /\ objs = <<>>
    /\ cache = <<>>
    /\ last = NoCall
    /\ running = TRUE
    /\ source = ClosedSource

\* list: db->backends when the call was made.
Call_git_odb_close(db) ==
    /\ OdbOpen
    /\ \E r \in {git_odb_close(backends, dbBackends[db], db)} :
          /\ backends' = r.bks
          /\ last' = [op |-> "odb_close", error |-> GIT_SUCCESS, id |-> ZeroOid,
                      obj |-> NoRaw, db |-> db, list |-> dbBackends[db]]
    /\ dbBackends' = [dbBackends EXCEPT ![db] = <<>>]
    /\ inserted' = [inserted EXCEPT ![db] = <<>>]
    /\ UNCHANGED <<repoVars, running, source>>

NextSort ==
    \/ \E db \in OdbIds, b \in BackendIds, ok \in BOOLEAN :
           Call_git_odb_add_backend(db, b, ok)
    \/ \E db \in OdbIds : Call_git_odb_close(db)

SpecSort == InitSort /\ [][NextSort]_vars

\* The stable sort of a vector by descending priority, priorities compared
\* as integers.
RECURSIVE PlaceByPriority(_, _, _)
PlaceByPriority(sorted, x, j) ==
    IF j = 0 \/ backends[sorted[j]].priority >= backends[x].priority
    THEN SubSeq(sorted, 1, j) \o <<x>> \o SubSeq(sorted, j + 1, Len(sorted))
    ELSE PlaceByPriority(sorted, x, j - 1)

RECURSIVE ByDescendingPriority(_, _)
ByDescendingPriority(list, sorted) ==
    IF list = <<>> THEN sorted
    ELSE ByDescendingPriority(Tail(list),
             PlaceByPriority(sorted, Head(list), Len(sorted)))

\* C6: after any sequence of successful git_odb_add_backend calls the
\* backend list is in descending priority order, backends of equal priority
\* in insertion order.
C6_ListSortedByPriority ==
    \A db \in OdbIds :
        /\ \A i, j \in 1..Len(dbBackends[db]) :
               i < j => backends[dbBackends[db][i]].priority
                            >= backends[dbBackends[db][j]].priority
        /\ dbBackends[db] = ByDescendingPriority(inserted[db], <<>>)

\* C21: after any sequence of git_odb_add_backend calls (the same backend
\* added to one object database more than once and calls answered
\* GIT_EBUSY included), git_odb_close releases every backend that the
\* object database owns exactly once, through the free hook or the default
\* free, and releases no backend of another object database.
C21_CloseFreesOwnedBackendsOnce ==
    last.op = "odb_close" =>
        \A b \in BackendIds :
            backends[b].freed = IF backends[b].odb = last.db THEN 1 ELSE 0

\* C24: for backends whose priorities are any signed integers of the
\* machine's width, the subtraction wrapping modulo 2^w, backend_sort_cmp
\* is negative when the first backend has the higher priority, positive
\* when it has the lower one and zero when the priorities are equal: the
\* comparator is a consistent descending total order.
C24_ComparatorOrdersByPriority ==
    \A a, b \in BackendIds :
        LET cmp == backend_sort_cmp(backends[a], backends[b])
        IN /\ backends[a].priority > backends[b].priority => cmp < 0
           /\ backends[a].priority < backends[b].priority => cmp > 0
           /\ backends[a].priority = backends[b].priority => cmp = 0

(***************************************************************************)
(* The repository: typed objects and the object cache.                     *)
(*                                                                         *)
(* A git_object is modelled by its envelope (id, in_memory, modified, the  *)
(* source slot) and by `fields`, the parsed content that the type's        *)
(* serializer writes out.  Parsers and serializers are collaborators: a    *)
(* parse keeps the raw payload as the fields, a serialization writes the   *)
(* fields, and either may fail.                                            *)
(***************************************************************************)
ObjIds == 1..MaxObjects
NoObject == 0

\* The memory behind a handle that is not allocated.
DeadObj ==
    [alive |-> FALSE, type |-> 0, id |-> ZeroOid, in_memory |-> FALSE,
     modified |-> FALSE, fields |-> <<>>, open |-> FALSE, buf |-> FALSE]

\* git__malloc: the lowest free handle, NoObject when none is left.
FreeHandles(os) == {h \in ObjIds : ~os[h].alive}
git__malloc(os) ==
    IF FreeHandles(os) = {} THEN NoObject
    ELSE CHOOSE h \in FreeHandles(os) : \A g \in FreeHandles(os) : h <= g

\* Mutant: the key comparison of the table never matches.
git__objtable_haskey_never(object, key) == FALSE

git__objtable_haskey(object, key) == key = object.id

\* The hash table of the cache: one binding per digest.
EmptyCache == [d \in Oids |-> NoObject]

git_hashtable_lookup(c, os, key) ==
    IF c[key] # NoObject /\ git__objtable_haskey(os[c[key]], key)
    THEN c[key] ELSE NoObject

git_hashtable_insert(c, key, h) == [c EXCEPT ![key] = h]

git_hashtable_remove(c, key) == [c EXCEPT ![key] = NoObject]

\* Mutant: the slot is left as it is.
git_object__source_close_keeps(o) == o

\* git_object__source_close: releases the slot's bytes if the slot is open.
git_object__source_close(o) ==
    IF o.open THEN [o EXCEPT !.open = FALSE, !.buf = FALSE] ELSE o

\* How many byte buffers git_object__source_close releases.
source_close_releases(o) == IF o.open THEN 1 ELSE 0

\* prepare_write: a fresh buffer on the slot, any open one closed first.
\* (The code also closes when write_ptr is set; git_object__source_close
\* acts only on an open slot, so write_ptr is not part of the state.)
prepare_write(o) ==
    LET closed == git_object__source_close(o)
    IN [closed EXCEPT !.buf = TRUE, !.open = TRUE]

git_object_id(o) == IF o.in_memory THEN ZeroOid ELSE o.id

(***************************************************************************)
(* git_object_free                                                         *)
(***************************************************************************)
\* Mutant: the object is neither freed nor unbound.
git_object_free_leaks(os, c, h) == [objs |-> os, cache |-> c]

git_object_free(os, c, h) ==
    LET closed == git_object__source_close(os[h])
    IN [objs |-> [os EXCEPT ![h] = DeadObj],
        cache |-> git_hashtable_remove(c, closed.id)]

(***************************************************************************)
(* git_repository_newobject                                                *)
(***************************************************************************)
newobject_valid_type(type) ==
    type \in {GIT_OBJ_COMMIT, GIT_OBJ_TAG, GIT_OBJ_TREE, GIT_OBJ_BLOB}

git_repository_newobject(os, type) ==
    LET h == git__malloc(os)
    IN IF ~newobject_valid_type(type)
       THEN [error |-> GIT_EINVALIDTYPE, object |-> NoObject, objs |-> os]
       ELSE IF h = NoObject
       THEN [error |-> GIT_ENOMEM, object |-> NoObject, objs |-> os]
       ELSE [error |-> GIT_SUCCESS, object |-> h,
             objs |-> [os EXCEPT ![h] =
                          [DeadObj EXCEPT !.alive = TRUE, !.type = type,
                                          !.in_memory = TRUE, !.modified = TRUE]]]

(***************************************************************************)
(* git_repository_lookup.  rawLeft counts the byte buffers that            *)
(* git_odb_read handed out and that are neither released nor owned by an   *)
(* object's source slot when the call returns.                             *)
(***************************************************************************)
lookup_type_mismatch(type, rawType) == type # GIT_OBJ_ANY /\ type # rawType

\* Whether the raw bytes are closed before a type mismatch is reported.
lookup_mismatch_closes_raw == FALSE

\* Mutant: the object found in the cache is never taken.
lookup_cache_hit_never(object) == FALSE

\* if (object != NULL): the cached object is returned as it is.
lookup_cache_hit(object) == object # NoObject

git_repository_lookup(os, c, bks, list, id, type, parseOk) ==
    LET hit == git_hashtable_lookup(c, os, id)
        r == git_odb_read(bks, list, id)
        h == git__malloc(os)
        fresh == [DeadObj EXCEPT !.alive = TRUE, !.id = id, !.type = r.out.type,
                                 !.open = TRUE, !.buf = TRUE]
        base == [error |-> GIT_SUCCESS, object |-> NoObject, objs |-> os,
                 cache |-> c, hit |-> FALSE, reads |-> r.calls, allocated |-> FALSE,
                 rawLeft |-> 0, released |-> 0, parseFailed |-> FALSE]
    IN IF lookup_cache_hit(hit)
       THEN [base EXCEPT !.object = hit, !.hit = TRUE, !.reads = <<>>]
       ELSE IF Failed(r.error)
       THEN [base EXCEPT !.error = r.error]
       ELSE IF lookup_type_mismatch(type, r.out.type)
       THEN [base EXCEPT !.error = GIT_EINVALIDTYPE,
                         !.rawLeft = IF lookup_mismatch_closes_raw THEN 0 ELSE 1]
       ELSE IF h = NoObject
       THEN [base EXCEPT !.error = GIT_ENOMEM, !.rawLeft = 1]
       ELSE IF ~parseOk
       THEN LET f == git_object_free([os EXCEPT ![h] = fresh], c, h)
            IN [base EXCEPT !.error = GIT_ERROR, !.objs = f.objs, !.cache = f.cache,
                            !.allocated = TRUE, !.parseFailed = TRUE,
                            !.released = source_close_releases(fresh),
                            !.rawLeft = 1 - source_close_releases(fresh)]
       ELSE LET parsed == [fresh EXCEPT !.fields = r.out.data]
                closed == git_object__source_close(parsed)
            IN [base EXCEPT !.object = h, !.allocated = TRUE,
                            !.released = source_close_releases(parsed),
                            !.objs = [os EXCEPT ![h] = closed],
                            !.cache = git_hashtable_insert(c, closed.id, h)]

(***************************************************************************)
(* git_object_write and write_back                                         *)
(***************************************************************************)
\* Mutant: write_back does not bind the object under its new id.
write_back_inserts_not == FALSE

\* Whether write_back rebinds the object in the cache under its new id.
write_back_inserts == TRUE

\* Mutant: the written object still counts as in memory.
write_back_written_in_memory(o, id) == [o EXCEPT !.id = id, !.modified = FALSE]

\* The object as write_back leaves it: the new id, both flags cleared.
write_back_written(o, id) ==
    [o EXCEPT !.id = id, !.modified = FALSE, !.in_memory = FALSE]

\* Mutant: the binding under the prior id is left in the table.
write_back_unbind_keeps(c, o) == c

\* if (!object->in_memory) git_hashtable_remove(objects, &object->id)
write_back_unbind(c, o) ==
    IF ~o.in_memory THEN git_hashtable_remove(c, o.id) ELSE c

\* Mutant: a digest that is bound keeps its binding.
write_back_bind_if_absent(c, id, h) ==
    IF c[id] # NoObject THEN c ELSE git_hashtable_insert(c, id, h)

\* git_hashtable_insert(objects, &object->id, object)
write_back_bind(c, id, h) == git_hashtable_insert(c, id, h)

\* midBound: the digests under which the object is bound between the
\* removal of the old binding and the insertion of the new one.
write_back(os, c, bks, list, h) ==
    LET o == os[h]
        w == git_odb_write(bks, list, MkRaw(o.type, o.fields))
        unbound == write_back_unbind(c, o)
        written == write_back_written(o, w.id)
    IN IF Failed(w.error)
       THEN [error |-> w.error, objs |-> os, cache |-> c, bks |-> w.bks,
             writes |-> w.calls, serFailed |-> FALSE, midBound |-> {}]
       ELSE [error |-> GIT_SUCCESS,
             objs |-> [os EXCEPT ![h] = git_object__source_close(written)],
             cache |-> IF write_back_inserts
                       THEN write_back_bind(unbound, w.id, h) ELSE unbound,
             bks |-> w.bks, writes |-> w.calls, serFailed |-> FALSE,
             midBound |-> {d \in Oids : unbound[d] = h}]

\* Mutant: no early return for an object that is not modified.
write_is_noop_never(o) == FALSE

\* The early return of git_object_write.
write_is_noop(o) == ~o.modified

git_object_write(os, c, bks, list, h, serOk) ==
    IF write_is_noop(os[h])
    THEN [error |-> GIT_SUCCESS, objs |-> os, cache |-> c, bks |-> bks,
          writes |-> <<>>, serFailed |-> FALSE, midBound |-> {}]
    ELSE LET prepared == [os EXCEPT ![h] = prepare_write(os[h])]
         IN IF ~newobject_valid_type(os[h].type) \/ ~serOk
            THEN [error |-> GIT_ERROR,
                  objs |-> [prepared EXCEPT ![h] = git_object__source_close(@)],
                  cache |-> c, bks |-> bks, writes |-> <<>>,
                  serFailed |-> newobject_valid_type(os[h].type), midBound |-> {}]
            ELSE write_back(prepared, c, bks, list, h)

(***************************************************************************)
(* git_repository_free.                                                    *)
(***************************************************************************)
\* The loop of git_repository_free: the iterator hands out every entry of
\* the table, and each is freed with git_object_free.
RECURSIVE free_cached_objects(_, _, _)
free_cached_objects(os, c, freed) ==
    IF \A d \in DOMAIN c : c[d] = NoObject
    THEN [objs |-> os, cache |-> c, freed |-> freed]
    ELSE LET d == CHOOSE k \in DOMAIN c : c[k] # NoObject
             f == git_object_free(os, c, c[d])
         IN free_cached_objects(f.objs, [f.cache EXCEPT ![d] = NoObject],
                                freed \cup {c[d]})

git_repository_free(os, c, bks, list, db) ==
    LET f == free_cached_objects(os, c, {})
        closed == git_odb_close(bks, list, db)
    IN [objs |-> f.objs, cache |-> f.cache, freed |-> f.freed,
        bks |-> closed.bks, nullDb |-> closed.nullDb]

(***************************************************************************)
(* The repository calls as actions.                                        *)
(***************************************************************************)
RepoDb == 1
LooseBackend == 1
PackedBackend == 2

NoRepoCall == [op |-> "none", error |-> GIT_SUCCESS, id |-> ZeroOid, obj |-> NoObject]

\* The repository takes calls until git_repository_free.
RepoOpen == running /\ last.op # "repository_free"

Call_git_repository_newobject(type) ==
    /\ RepoOpen
    /\ \E r \in {git_repository_newobject(objs, type)} :
          /\ objs' = r.objs
          /\ last' = [op |-> "newobject", error |-> r.error, id |-> ZeroOid,
                      obj |-> r.object, type |-> type]
    /\ UNCHANGED <<odbVars, cache, running, source>>

Call_git_repository_lookup(id, type, parseOk) ==
    /\ RepoOpen
    /\ \E r \in {git_repository_lookup(objs, cache, backends, dbBackends[RepoDb],
                                      id, type, parseOk)} :
          /\ objs' = r.objs
          /\ cache' = r.cache
          /\ last' = [op |-> "lookup", error |-> r.error, id |-> id,
                      obj |-> r.object, type |-> type, hit |-> r.hit,
                      reads |-> r.reads, allocated |-> r.allocated,
                      rawLeft |-> r.rawLeft, released |-> r.released,
                      parseFailed |-> r.parseFailed,
                      follows |-> IF last.op = "lookup" /\ ~Failed(last.error)
                                  THEN Brief(last) ELSE Brief(NoRepoCall)]
    /\ UNCHANGED <<odbVars, running, source>>

\* storageOk: whether the loose backend's storage works during this call.
Call_git_object_write(h, serOk, storageOk) ==
    /\ RepoOpen
    /\ objs[h].alive
    /\ \E r \in {git_object_write(objs, cache,
                      [backends EXCEPT ![LooseBackend].failing = ~storageOk],
                      dbBackends[RepoDb], h, serOk)} :
          /\ objs' = r.objs
          /\ cache' = r.cache
          /\ backends' = [r.bks EXCEPT ![LooseBackend].failing = FALSE]
          /\ last' = [op |-> "write", error |-> r.error, id |-> r.objs[h].id,
                      obj |-> h, was |-> objs[h], writes |-> r.writes,
                      serFailed |-> r.serFailed, midBound |-> r.midBound]
    /\ UNCHANGED <<dbBackends, inserted, running, source>>

Call_git_object_free(h) ==
    /\ RepoOpen
    /\ objs[h].alive
    /\ \E r \in {git_object_free(objs, cache, h)} :
          /\ objs' = r.objs
          /\ cache' = r.cache
    /\ last' = [op |-> "free", error |-> GIT_SUCCESS, id |-> objs[h].id, obj |-> h]
    /\ UNCHANGED <<odbVars, running, source>>

\* alive: the objects allocated when the call was made.
Call_git_repository_free ==
    /\ RepoOpen
    /\ \E r \in {git_repository_free(objs, cache, backends, dbBackends[RepoDb],
                                     RepoDb)} :
          /\ objs' = r.objs
          /\ cache' = r.cache
          /\ backends' = r.bks
          /\ last' = [op |-> "repository_free", error |-> GIT_SUCCESS,
                      id |-> ZeroOid, obj |-> NoObject, freed |-> r.freed,
                      alive |-> {h \in ObjIds : objs[h].alive}]
    /\ dbBackends' = [dbBackends EXCEPT ![RepoDb] = <<>>]
    /\ UNCHANGED <<inserted, running, source>>

\* The client changes an object through its type's API, which marks it
\* modified.
Modify(h, fields) ==
    /\ RepoOpen
    /\ objs[h].alive
    /\ objs[h].type = GIT_OBJ_BLOB
    /\ objs' = [objs EXCEPT ![h].fields = fields, ![h].modified = TRUE]
    /\ last' = [op |-> "modify", error |-> GIT_SUCCESS, id |-> objs[h].id, obj |-> h]
    /\ UNCHANGED <<odbVars, cache, running, source>>

(***************************************************************************)
(* Spec: a repository opened on an object directory with a packed backend  *)
(* (no write hook) that holds two objects, and a loose backend that takes  *)
(* the writes.                                                             *)
(***************************************************************************)
PackedObjs == OdbObjs

OpenedBackends ==
    [b \in BackendIds |->
        IF b = LooseBackend THEN MkBackend(1, TRUE, TRUE, TRUE)
        ELSE IF b = PackedBackend
        THEN [MkBackend(2, FALSE, TRUE, TRUE) EXCEPT !.store = PackedObjs]
        ELSE MkBackend(0, FALSE, FALSE, TRUE)]

\* git_odb_open: the loose backend is added, then the packed one.
git_odb_open ==
    LET a == git_odb_add_backend(OpenedBackends, <<>>, RepoDb, LooseBackend, TRUE)
    IN git_odb_add_backend(a.bks, a.list, RepoDb, PackedBackend, TRUE)

Init ==
    /\ backends = git_odb_open.bks
    /\ dbBackends = [o \in OdbIds |-> IF o = RepoDb THEN git_odb_open.list ELSE <<>>]
    /\ inserted = [o \in OdbIds |-> IF o = RepoDb THEN <<LooseBackend, PackedBackend>> ELSE <<>>]
    /\ objs = [h \in ObjIds |-> DeadObj]
    /\ cache = EmptyCache
    /\ last = NoRepoCall
    /\ running = TRUE
    /\ source = ClosedSource

\* The client creates and changes blobs; trees come from the object
\* database only.
LookupTypes == TypeInputs \cup {GIT_OBJ_ANY}
NewTypes == {GIT_OBJ_BLOB, GIT_OBJ_OFS_DELTA}
LookupIds == {git_odb__hash_obj(o).id : o \in PackedObjs}
                 \cup {git_odb__hash_obj(MkRaw(GIT_OBJ_BLOB, f)).id : f \in Payloads}

Next ==
    \/ \E t \in NewTypes : Call_git_repository_newobject(t)
    \/ \E id \in LookupIds, t \in LookupTypes, parseOk \in BOOLEAN :
           Call_git_repository_lookup(id, t, parseOk)
    \/ \E h \in ObjIds, serOk \in BOOLEAN, storageOk \in BOOLEAN :
           Call_git_object_write(h, serOk, storageOk)
    \/ \E h \in ObjIds : Call_git_object_free(h)
    \/ \E h \in ObjIds, f \in Payloads : Modify(h, f)
    \/ Call_git_repository_free

Spec == Init /\ [][Next]_vars

(***************************************************************************)
(* Claims about the object cache (Spec).                                   *)
(***************************************************************************)
\* The object that the cache c binds to digest d.
Bound(c, os, d) == git_hashtable_lookup(c, os, d)

\* C1: two successive successful git_repository_lookup calls of one digest
\* with no git_object_write or git_object_free between them return the same
\* object instance.  Step by step: a successful lookup leaves the digest
\* bound to the object it returned; no call but write and free changes what
\* a digest is bound to; a successful lookup of a bound digest returns the
\* bound object from the cache, reads nothing and creates no object.
C1_SuccessiveLookupsSameInstance ==
    [][/\ (last'.op = "lookup" /\ ~Failed(last'.error)) =>
              /\ last'.obj # NoObject
              /\ Bound(cache', objs', last'.id) = last'.obj
       /\ last'.op \notin {"write", "free", "repository_free"} =>
              \A d \in Oids :
                  Bound(cache, objs, d) # NoObject =>
                      Bound(cache', objs', d) = Bound(cache, objs, d)
       /\ (last'.op = "lookup" /\ Bound(cache, objs, last'.id) # NoObject) =>
              /\ ~Failed(last'.error)
              /\ last'.obj = Bound(cache, objs, last'.id)
              /\ last'.hit /\ ~last'.allocated /\ last'.reads = <<>>
              /\ objs' = objs /\ cache' = cache
       /\ (/\ last'.op = "lookup" /\ ~Failed(last'.error)
           /\ last'.follows.op = "lookup"
           /\ last'.follows.id = last'.id) =>
              last'.obj = last'.follows.obj
      ]_vars

\* C1's case: a lookup by any type, right after the lookup that loaded the
\* digest, returned the loaded object from the cache.
C1_Witness ==
    /\ last.op = "lookup" /\ ~Failed(last.error)
    /\ last.type = GIT_OBJ_ANY
    /\ last.follows.op = "lookup"
    /\ last.follows.id = last.id
    /\ last.follows.obj = last.obj
    /\ last.hit /\ ~last.allocated

\* C2: when git_object_write returns success on an object that was
\* modified, the object is no longer modified nor in memory, it has a
\* digest, and a lookup of that digest returns the object itself.
C2_WriteBindsObject ==
    (last.op = "write" /\ ~Failed(last.error) /\ last.was.modified) =>
        LET o == objs[last.obj]
            l == git_repository_lookup(objs, cache, backends, dbBackends[RepoDb],
                                       git_object_id(o), GIT_OBJ_ANY, TRUE)
        IN /\ ~o.modified
           /\ ~o.in_memory
           /\ git_object_id(o) # ZeroOid
           /\ git_object_id(o) = last.id
           /\ Bound(cache, objs, git_object_id(o)) = last.obj
           /\ ~Failed(l.error) /\ l.object = last.obj

\* C2's case: a cached object was modified and written under a new digest.
C2_Witness ==
    /\ last.op = "write" /\ ~Failed(last.error)
    /\ last.was.modified /\ ~last.was.in_memory
    /\ last.was.id # last.id

\* C3: git_object_write on an object that is not modified returns success
\* and changes nothing: no backend write is invoked, the object's digest,
\* flags and source slot, the other objects, the cache and the backends'
\* stores are what they were.
C3_CleanWriteIsNoOp ==
    [][(last'.op = "write" /\ ~last'.was.modified) =>
           /\ last'.error = GIT_SUCCESS
           /\ last'.writes = <<>>
           /\ objs' = objs
           /\ cache' = cache
           /\ backends' = backends
      ]_vars

\* C3's case: a clean object that came from a lookup was written.
C3_Witness ==
    /\ last.op = "write" /\ ~last.was.modified
    /\ ~last.was.in_memory
    /\ last.error = GIT_SUCCESS
    /\ objs[last.obj] = last.was

\* C9: a git_repository_lookup that misses the cache and asks for a type
\* other than the one the object database returns fails with
\* GIT_EINVALIDTYPE, creates no object, and leaves no raw byte buffer
\* allocated.
C9_TypeMismatchReleasesRaw ==
    (/\ last.op = "lookup" /\ ~last.hit
     /\ last.type # GIT_OBJ_ANY
     /\ \E b \in BackendIds :
            /\ StoreGet(backends[b].store, last.id) # NoRaw
            /\ StoreGet(backends[b].store, last.id).type # last.type)
    => /\ last.error = GIT_EINVALIDTYPE
       /\ ~last.allocated
       /\ last.rawLeft = 0


(***************************************************************************)
(* git_repository_open.  Paths are sequences of characters.  path_aux is  *)
(* an array on the stack: the bytes that lie just below it are an input,   *)
(* `below` (its last element is the byte right before path_aux[0]), and a  *)
(* scan that leaves even those bytes ends in a fault.                      *)
(***************************************************************************)
MaxPathLen == 5
MaxBelow == 2

PathChars == {"/", ".", "g", "i", "t"}
PathInputs == SeqsUpTo(PathChars, MaxPathLen) \ {<<>>}
BelowInputs == SeqsUpTo({"/", "."}, MaxBelow)
FsInputs == SUBSET {"dir", "objects", "HEAD"}

GIT_FOLDER == <<"/", ".", "g", "i", "t", "/">>
GIT_OBJECTS_FOLDER == <<"o", "b", "j", "e", "c", "t", "s", "/">>
GIT_INDEX_FILE == <<"i", "n", "d", "e", "x">>

\* A path pointer that is NULL.
NullPath == <<"NULL">>

\* The outcome of a call that does not return.
NoReturn == "no return"

\* A path with its trailing separator, and without it.
WithSeparator(p) == IF p[Len(p)] = "/" THEN p ELSE Append(p, "/")
WithoutSeparator(p) == IF p[Len(p)] = "/" THEN SubSeq(p, 1, Len(p) - 1) ELSE p

\* gitfo_isdir / gitfo_exists on what the file system holds.
gitfo_isdir(fs, name) == name \in fs
gitfo_exists(fs, name) == name \in fs

\* The byte at position k of path_aux (positions from 1); positions below 1
\* lie before the start of the buffer.
StackByte(path_aux, below, k) ==
    IF k >= 1 THEN path_aux[k] ELSE below[Len(below) + k]

\* while (*last_folder != '/') last_folder--;
RECURSIVE scan_last_folder(_, _, _)
scan_last_folder(path_aux, below, k) ==
    IF k < 1 - Len(below) THEN k
    ELSE IF StackByte(path_aux, below, k) = "/" THEN k
    ELSE scan_last_folder(path_aux, below, k - 1)

NoFolders ==
    [error |-> GIT_ENOTAREPO, path_repository |-> NullPath, path_odb |-> NullPath,
     path_index |-> NullPath, path_workdir |-> NullPath, is_bare |-> FALSE,
     underrun |-> 0, fault |-> FALSE, wroteBelow |-> FALSE]

guess_repository_folders(repository_path, fs, below) ==
    LET path_aux == IF repository_path[Len(repository_path)] # "/"
                    THEN Append(repository_path, "/") ELSE repository_path
        path_len == Len(path_aux)
        k == scan_last_folder(path_aux, below, path_len - 1)
        last_folder == IF k >= 1 THEN SubSeq(path_aux, k, path_len)
                       ELSE SubSeq(below, Len(below) + k, Len(below)) \o path_aux
        found == [NoFolders EXCEPT !.error = GIT_SUCCESS,
                                   !.path_repository = path_aux,
                                   !.path_odb = path_aux \o GIT_OBJECTS_FOLDER,
                                   !.underrun = IF k >= 1 THEN 0 ELSE 1 - k]
    IN IF ~gitfo_isdir(fs, "dir") THEN NoFolders
       ELSE IF ~gitfo_isdir(fs, "objects")
       THEN [NoFolders EXCEPT !.path_repository = path_aux]
       ELSE IF ~gitfo_exists(fs, "HEAD")
       THEN [NoFolders EXCEPT !.path_repository = path_aux,
                              !.path_odb = path_aux \o GIT_OBJECTS_FOLDER]
       ELSE IF k < 1 - Len(below)
       THEN [found EXCEPT !.error = NoReturn, !.fault = TRUE, !.underrun = Len(below) + 1]
       ELSE IF last_folder = GIT_FOLDER
       THEN [found EXCEPT !.is_bare = FALSE,
                          !.path_index = path_aux \o GIT_INDEX_FILE,
                          \* *(last_folder + 1) = 0 cuts path_aux after the
                          \* separator, or lands below the buffer
                          !.path_workdir = IF k >= 0 THEN SubSeq(path_aux, 1, k)
                                           ELSE path_aux \o GIT_INDEX_FILE,
                          !.wroteBelow = k < 0]
       ELSE [found EXCEPT !.is_bare = TRUE, !.path_workdir = NullPath]

(***************************************************************************)
(* assign_repository_folders.  path_aux is a buffer of characters in which *)
(* NUL ends a string; strcpy writes the string and its NUL at an offset    *)
(* and leaves the bytes after it as they were.                             *)
(***************************************************************************)
NUL == "NUL"

strcpy_at(buf, off, str) ==
    SubSeq(buf, 1, off) \o str \o <<NUL>>
        \o SubSeq(buf, off + Len(str) + 2, Len(buf))

\* The string that starts at the head of a buffer.
cstr(buf) ==
    LET n == CHOOSE i \in 1..Len(buf) :
                 buf[i] = NUL /\ \A j \in 1..(i - 1) : buf[j] # NUL
    IN SubSeq(buf, 1, n - 1)

assign_repository_folders(git_dir, git_object_directory, git_index_file, git_work_tree, fs) ==
    LET none == [NoFolders EXCEPT !.error = GIT_ENOTFOUND]
        copied == strcpy_at(<<>>, 0, git_dir)
        slashed == IF git_dir[Len(git_dir)] # "/"
                   THEN strcpy_at(copied, Len(git_dir), <<"/">>) ELSE copied
        path_len == Len(cstr(slashed))
        odb_aux == IF git_object_directory = NullPath
                   THEN strcpy_at(slashed, path_len, GIT_OBJECTS_FOLDER)
                   ELSE strcpy_at(slashed, 0, git_object_directory)
        index_aux == IF git_index_file = NullPath
                     THEN strcpy_at(odb_aux, path_len, GIT_INDEX_FILE)
                     ELSE strcpy_at(odb_aux, 0, git_index_file)
    IN IF git_dir = NullPath THEN none
       ELSE IF ~gitfo_isdir(fs, WithoutSeparator(git_dir)) THEN none
       ELSE IF ~gitfo_isdir(fs, WithoutSeparator(cstr(odb_aux)))
       THEN [none EXCEPT !.path_repository = cstr(slashed)]
       ELSE IF ~gitfo_exists(fs, cstr(index_aux))
       THEN [none EXCEPT !.path_repository = cstr(slashed),
                         !.path_odb = cstr(odb_aux)]
       ELSE [none EXCEPT !.error = GIT_SUCCESS,
                         !.path_repository = cstr(slashed),
                         !.path_odb = cstr(odb_aux),
                         !.path_index = cstr(index_aux),
                         !.is_bare = git_work_tree = NullPath,
                         !.path_workdir = git_work_tree]

(***************************************************************************)
(* git_repository_open and git_repository_open2.  env says what the        *)
(* allocations do and how the program was built: with assertions, or       *)
(* without them, where git_odb_close reads db->backends through a NULL db, *)
(* which faults or (page zero readable) finds no backends.                 *)
(***************************************************************************)
Builds == {"assert", "ndebug_fault", "ndebug_zero"}

OpenEnvs ==
    {[allocOk |-> FALSE, odbOk |-> TRUE, build |-> "assert"]}
        \cup [allocOk : {TRUE}, odbOk : BOOLEAN, build : Builds]

NoCleanup ==
    [ran |-> FALSE, closedNullOdb |-> FALSE, assertion |-> FALSE,
     wanted |-> GIT_SUCCESS]

\* cleanup: git_repository_free(repo); return error;  The repository is as
\* git_repository__alloc left it: no objects, db = NULL.
open_cleanup(error, env) ==
    LET f == git_repository_free([h \in ObjIds |-> DeadObj], EmptyCache,
                                 OpenedBackends, <<>>, NoOdb)
    IN [error |-> IF f.nullDb /\ env.build # "ndebug_zero" THEN NoReturn ELSE error,
        cleanup |-> [ran |-> TRUE, closedNullOdb |-> f.nullDb,
                     assertion |-> f.nullDb /\ env.build = "assert",
                     wanted |-> error]]

\* What follows the layout: git_odb_open, or the cleanup.
open_finish(g, env) ==
    LET odb == IF env.odbOk THEN git_odb_open.error ELSE GIT_ENOMEM
    IN IF ~env.allocOk
       THEN [error |-> GIT_ENOMEM, repo |-> NoFolders, opened |-> FALSE,
             cleanup |-> NoCleanup]
       ELSE IF g.fault
       THEN [error |-> NoReturn, repo |-> g, opened |-> FALSE, cleanup |-> NoCleanup]
       ELSE IF Failed(g.error)
       THEN [error |-> open_cleanup(g.error, env).error, repo |-> g, opened |-> FALSE,
             cleanup |-> open_cleanup(g.error, env).cleanup]
       ELSE IF Failed(odb)
       THEN [error |-> open_cleanup(odb, env).error, repo |-> g, opened |-> FALSE,
             cleanup |-> open_cleanup(odb, env).cleanup]
       ELSE [error |-> GIT_SUCCESS, repo |-> g, opened |-> TRUE, cleanup |-> NoCleanup]

git_repository_open(path, fs, below, env) ==
    open_finish(guess_repository_folders(path, fs, below), env)

git_repository_open2(git_dir, git_object_directory, git_index_file, git_work_tree, fs, env) ==
    open_finish(assign_repository_folders(git_dir, git_object_directory,
                                          git_index_file, git_work_tree, fs), env)

\* The state of the repository that a call to open leaves.
Opened(r, call) ==
    /\ last' = [call EXCEPT !.error = r.error, !.repo = r.repo,
                            !.cleanup = r.cleanup]
    /\ running' = (r.error # NoReturn)
    /\ backends' = IF r.opened THEN git_odb_open.bks ELSE OpenedBackends
    /\ dbBackends' = [o \in OdbIds |->
                         IF o = RepoDb /\ r.opened THEN git_odb_open.list ELSE <<>>]
    /\ inserted' = [o \in OdbIds |->
                       IF o = RepoDb /\ r.opened
                       THEN <<LooseBackend, PackedBackend>> ELSE <<>>]
    /\ objs' = [h \in ObjIds |-> DeadObj]
    /\ cache' = EmptyCache
    /\ UNCHANGED source

Call_git_repository_open(path, fs, below, env) ==
    /\ running
    /\ \E r \in {git_repository_open(path, fs, below, env)} :
          Opened(r, [op |-> "open", error |-> GIT_SUCCESS, id |-> ZeroOid,
                     obj |-> NoObject, path |-> path, fs |-> fs, env |-> env,
                     repo |-> NoFolders, cleanup |-> NoCleanup])

Call_git_repository_open2(git_dir, odir, ifile, wtree, fs, env) ==
    /\ running
    /\ \E r \in {git_repository_open2(git_dir, odir, ifile, wtree, fs, env)} :
          Opened(r, [op |-> "open2", error |-> GIT_SUCCESS, id |-> ZeroOid,
                     obj |-> NoObject, git_dir |-> git_dir,
                     object_directory |-> odir, index_file |-> ifile,
                     work_tree |-> wtree, fs |-> fs, env |-> env,
                     repo |-> NoFolders, cleanup |-> NoCleanup])

(***************************************************************************)
(* SpecOpen: git_repository_open on every path, file system and stack, and *)
(* git_repository_open2 on given and omitted paths.                        *)
(***************************************************************************)
GitDirInputs == {NullPath, <<"g">>, <<"g", "/">>}
ObjDirInputs == {NullPath, <<"o">>, <<"o", "b", "j">>}
IndexInputs == {NullPath, <<"i">>}
WorkTreeInputs == {NullPath, <<"w">>}

\* The files and directories that may exist for git_repository_open2.
Fs2Inputs ==
    SUBSET {<<"g">>, WithoutSeparator(<<"g", "/">> \o GIT_OBJECTS_FOLDER),
            <<"g", "/">> \o GIT_INDEX_FILE, <<"o">>, <<"o", "b", "j">>,
            <<"o", "b">> \o GIT_INDEX_FILE, <<"i">>}

InitOpen ==
    /\ backends = OpenedBackends
    /\ dbBackends = [o \in OdbIds |-> <<>>]
    /\ inserted = [o \in OdbIds |-> <<>>]
    /\ objs = [h \in ObjIds |-> DeadObj]
    /\ cache = EmptyCache
    /\ last = NoRepoCall
    /\ running = TRUE
    /\ source = ClosedSource

\* An open call makes the repository: it is the first call.
NextOpen ==
    /\ last = NoRepoCall
    /\ \/ \E path \in PathInputs, fs \in FsInputs, below \in BelowInputs,
             env \in OpenEnvs :
              Call_git_repository_open(path, fs, below, env)
       \/ \E git_dir \in GitDirInputs, odir \in ObjDirInputs, ifile \in IndexInputs,
             wtree \in WorkTreeInputs, fs \in Fs2Inputs, env \in OpenEnvs :
              Call_git_repository_open2(git_dir, odir, ifile, wtree, fs, env)

SpecOpen == InitOpen /\ [][NextOpen]_vars

\* Where the last component of a path without trailing separator starts.
RECURSIVE LastComponentStart(_, _)
LastComponentStart(p, k) ==
    IF k = 0 \/ p[k] = "/" THEN k + 1 ELSE LastComponentStart(p, k - 1)

LastComponent(p) ==
    LET q == WithoutSeparator(p)
    IN SubSeq(q, LastComponentStart(q, Len(q)), Len(q))

\* C10: for a directory that holds objects/ and HEAD, git_repository_open
\* succeeds and the repository is non-bare exactly when the last component
\* of the path is .git; then path_index is <path>/index and path_workdir is
\* <path>/ without its trailing .git/; otherwise it is bare and
\* path_workdir is null.  The scan for the last component reads no byte
\* before the start of the path buffer.
C10_OpenClassifiesByLastComponent ==
    (/\ last.op = "open" /\ last.env.allocOk /\ last.env.odbOk
     /\ last.fs = {"dir", "objects", "HEAD"}) =>
        LET dir == WithSeparator(last.path)
            repo == last.repo
        IN /\ repo.underrun = 0
           /\ last.error = GIT_SUCCESS
           /\ repo.path_repository = dir
           /\ IF LastComponent(last.path) = <<".", "g", "i", "t">>
              THEN /\ ~repo.is_bare
                   /\ repo.path_index = dir \o GIT_INDEX_FILE
                   /\ repo.path_workdir = SubSeq(dir, 1, Len(dir) - 5)
              ELSE /\ repo.is_bare
                   /\ repo.path_workdir = NullPath


\* C11: when git_repository_open or git_repository_open2 fails after the
\* repository was allocated (a layout check fails or the object database
\* cannot be opened), the partially constructed repository is freed and the
\* error is returned to the caller (GIT_ENOTAREPO for a layout check of
\* open, GIT_ENOTFOUND for one of open2); the cleanup violates no assertion
\* and closes no object database that was never opened.
C11_FailedOpenFreesAndReturns ==
    (last.op \in {"open", "open2"} /\ last.cleanup.ran) =>
        /\ last.error = last.cleanup.wanted
        /\ Failed(last.repo.error) =>
               last.cleanup.wanted = IF last.op = "open" THEN GIT_ENOTAREPO
                                     ELSE GIT_ENOTFOUND
        /\ ~last.cleanup.assertion
        /\ ~last.cleanup.closedNullOdb

\* The path that git_repository_open2 is to resolve for an optional path:
\* the given one, or the default under git_dir.
Resolved(given, git_dir, default) ==
    IF given # NullPath THEN given ELSE WithSeparator(git_dir) \o default

\* C12: git_repository_open2 resolves path_odb to object_directory when
\* given and to <git_dir>/objects/ otherwise, and path_index to index_file
\* when given and to <git_dir>/index otherwise, each default taken from
\* git_dir whether or not the other path was given; it succeeds when
\* git_dir, the resolved object directory and the resolved index exist.
C12_Open2ResolvesDefaults ==
    (last.op = "open2" /\ last.git_dir # NullPath
     /\ last.env.allocOk /\ last.env.odbOk) =>
        LET odb == Resolved(last.object_directory, last.git_dir, GIT_OBJECTS_FOLDER)
            index == Resolved(last.index_file, last.git_dir, GIT_INDEX_FILE)
        IN /\ ~Failed(last.error) =>
                  /\ last.repo.path_odb = odb
                  /\ last.repo.path_index = index
           /\ (/\ WithoutSeparator(last.git_dir) \in last.fs
               /\ WithoutSeparator(odb) \in last.fs
               /\ index \in last.fs) => ~Failed(last.error)


\* C13: when the serializer of the object's type fails in git_object_write,
\* the call returns the error with the source slot closed; the object's
\* digest and flags, every other object, the cache and the backends are as
\* before the call, and no backend write was invoked.
C13_SerializerFailureChangesNothing ==
    [][(last'.op = "write" /\ last'.serFailed) =>
           LET h == last'.obj
           IN /\ Failed(last'.error)
              /\ last'.writes = <<>>
              /\ ~objs'[h].open /\ ~objs'[h].buf
              /\ objs'[h] = [objs[h] EXCEPT !.open = FALSE, !.buf = FALSE]
              /\ objs'[h].modified
              /\ \A g \in ObjIds \ {h} : objs'[g] = objs[g]
              /\ cache' = cache
              /\ backends' = backends
      ]_vars

\* C13's case: a cached object, modified, whose slot an earlier failed
\* write left open, is written and its serializer fails.
C13_Witness ==
    /\ last.op = "write" /\ last.serFailed
    /\ ~last.was.in_memory /\ last.was.modified /\ last.was.open
    /\ Bound(cache, objs, last.was.id) = last.obj
    /\ ~objs[last.obj].open


\* C14: when the parser of the object's type fails in a git_repository_lookup
\* that missed the cache, the error is returned, the object allocated for
\* the lookup is freed (its source slot closed, the raw bytes released
\* exactly once), and the cache and every other object are as before.
C14_ParserFailureFreesObject ==
    [][(last'.op = "lookup" /\ last'.parseFailed) =>
           /\ Failed(last'.error)
           /\ last'.obj = NoObject
           /\ ~last'.hit /\ last'.allocated
           /\ last'.released = 1 /\ last'.rawLeft = 0
           /\ objs' = objs
           /\ cache' = cache
      ]_vars

\* C14's case: the parser fails while another digest is bound in the cache.
C14_Witness ==
    /\ last.op = "lookup" /\ last.parseFailed
    /\ \E d \in Oids : d # last.id /\ Bound(cache, objs, d) # NoObject
    /\ Bound(cache, objs, last.id) = NoObject


\* C15: after git_repository_free every object that was created on the
\* repository by new or lookup and not freed by the client has been freed
\* by the teardown, objects in memory that were never written included.
C15_TeardownFreesEveryObject ==
    last.op = "repository_free" =>
        /\ last.freed = last.alive
        /\ \A h \in ObjIds : ~objs[h].alive


\* No object that is in memory is bound in the cache.
NoInMemoryObjectCached ==
    \A h \in ObjIds :
        (objs[h].alive /\ objs[h].in_memory) => \A d \in Oids : cache[d] # h

\* git_repository_newobject leaves the cache as it is and returns an object
\* in memory, modified and without digest; an object in memory becomes
\* bound only in a successful git_object_write of it.
InMemoryUntilWritten ==
    /\ (last'.op = "newobject" /\ ~Failed(last'.error)) =>
           /\ cache' = cache
           /\ objs'[last'.obj].alive /\ ~objs[last'.obj].alive
           /\ objs'[last'.obj].in_memory /\ objs'[last'.obj].modified
           /\ git_object_id(objs'[last'.obj]) = ZeroOid
    /\ \A h \in ObjIds :
           (/\ objs[h].alive /\ objs[h].in_memory
            /\ \E d \in Oids : cache'[d] = h)
           => /\ last'.op = "write" /\ last'.obj = h /\ ~Failed(last'.error)
              /\ ~objs'[h].in_memory

\* C16: in every reachable state no object with in_memory set is bound in
\* the cache: git_repository_newobject leaves the cache unchanged and
\* returns an object in memory and modified, and such an object becomes
\* bound only by its first successful git_object_write.
C16_InMemoryNotCached ==
    []NoInMemoryObjectCached /\ [][InMemoryUntilWritten]_vars

\* C16's case: an object made by git_repository_newobject has just been
\* bound by its first successful write while another one is still in memory.
C16_Witness ==
    /\ last.op = "write" /\ ~Failed(last.error) /\ last.was.in_memory
    /\ Bound(cache, objs, last.id) = last.obj
    /\ \E h \in ObjIds : objs[h].alive /\ objs[h].in_memory


\* The digests under which the table of the cache holds object h.
BoundUnder(c, h) == {d \in Oids : c[d] = h}

\* No object is held by the table under two digests.
AtMostOneBinding == \A h \in ObjIds : Cardinality(BoundUnder(cache, h)) <= 1

\* The digest of an object changes only in a successful git_object_write of
\* that object, which was modified; such a write of an object that had a
\* digest removes the binding under the old digest first, so that the
\* object is bound under no digest in between, and leaves the object bound
\* under the new digest only.
DigestChangesOnlyInWrite ==
    /\ \A h \in ObjIds :
           (/\ objs[h].alive /\ objs'[h].alive
            /\ git_object_id(objs'[h]) # git_object_id(objs[h]))
           => /\ last'.op = "write" /\ last'.obj = h
              /\ ~Failed(last'.error) /\ last'.was.modified
    /\ (/\ last'.op = "write" /\ ~Failed(last'.error)
        /\ last'.was.modified /\ ~last'.was.in_memory
        /\ last'.id # last'.was.id)
       => /\ last'.midBound = {}
          /\ cache'[last'.was.id] = NoObject
          /\ BoundUnder(cache', last'.obj) = {last'.id}
          /\ git_object_id(objs'[last'.obj]) = last'.id

\* C18: the digest of a cached object changes only inside a successful
\* git_object_write: no lookup, new, failed write or write of a clean object
\* changes any object's digest.  When a successful write changes the digest
\* of a cached object, the binding under the old digest is removed before
\* the one under the new digest is inserted: at no point is the object
\* bound under two digests, and afterwards it is bound under the new one
\* only.
C18_DigestChangesOnlyInWrite ==
    []AtMostOneBinding /\ [][DigestChangesOnlyInWrite]_vars

\* C18's case: a successful write took a bound object from one digest to
\* another.
C18_Witness ==
    /\ last.op = "write" /\ ~Failed(last.error)
    /\ last.was.modified /\ ~last.was.in_memory
    /\ last.was.id # last.id
    /\ last.was.id # ZeroOid
    /\ cache[last.id] = last.obj

\* C19: when an object is written back and another object of the repository
\* already has the digest d that the write computes (it serialized to the
\* same bytes), the cache afterwards holds one binding for d, to the object
\* written later; the earlier object stays allocated with in_memory and
\* modified clear and digest d, and is not reachable through the cache.
C19_SameDigestLaterWriteWins ==
    [][(last'.op = "write" /\ ~Failed(last'.error) /\ last'.was.modified) =>
           \A e \in ObjIds \ {last'.obj} :
               (/\ objs[e].alive /\ ~objs[e].in_memory /\ ~objs[e].modified
                /\ objs[e].id = last'.id)
               => /\ cache'[last'.id] = last'.obj
                  /\ Bound(cache', objs', last'.id) = last'.obj
                  /\ BoundUnder(cache', last'.obj) = {last'.id}
                  /\ objs'[e] = objs[e]
                  /\ objs'[e].alive /\ ~objs'[e].in_memory /\ ~objs'[e].modified
                  /\ git_object_id(objs'[e]) = last'.id
                  /\ BoundUnder(cache', e) = {}
      ]_vars

\* C19's case: an object made by git_repository_newobject has just been
\* written under the digest of another object that is written and clean.
C19_Witness ==
    /\ last.op = "write" /\ ~Failed(last.error)
    /\ last.was.in_memory
    /\ cache[last.id] = last.obj
    /\ \E e \in ObjIds \ {last.obj} :
           /\ objs[e].alive /\ ~objs[e].in_memory /\ ~objs[e].modified
           /\ objs[e].id = last.id
           /\ objs[e].type = GIT_OBJ_BLOB
           /\ MkRaw(objs[e].type, objs[e].fields) \in backends[LooseBackend].store

\* C20: when digest d is bound in the cache, git_repository_lookup(d, T)
\* returns success with the cached object for every expected type T, a T
\* that differs from the cached object's type included, without reading
\* from the object database and without changing the cache or the object.
C20_CacheHitIgnoresType ==
    [][\A h \in ObjIds :
           (/\ last'.op = "lookup"
            /\ objs[h].alive
            /\ cache[last'.id] = h /\ objs[h].id = last'.id)
           => /\ last'.error = GIT_SUCCESS
              /\ last'.obj = h
              /\ last'.reads = <<>>
              /\ last'.rawLeft = 0 /\ last'.released = 0
              /\ objs' = objs
              /\ cache' = cache
              /\ backends' = backends
      ]_vars

\* C20's case: a lookup that expects a type other than the one of the
\* object bound to the digest.
C20_Witness ==
    /\ last.op = "lookup" /\ last.hit
    /\ last.type # GIT_OBJ_ANY
    /\ last.obj # NoObject
    /\ objs[last.obj].type # last.type
    /\ cache[last.id] = last.obj

\* The bindings of c to live objects other than h.
BindingsOfOthers(c, os, h) ==
    {d \in Oids : c[d] # NoObject /\ c[d] # h /\ os[c[d]].alive}

\* C22: a removal from the cache on behalf of an object removes only a
\* binding to that object: neither git_object_free(obj) nor the unbinding
\* of the old digest in a successful git_object_write(obj) removes a
\* binding of a digest to another live object, whether obj is in memory
\* with a zero digest or was displaced from the cache by an object written
\* under its digest.
C22_UnbindingSparesOtherObjects ==
    [][/\ last'.op = "free" =>
              \A d \in BindingsOfOthers(cache, objs, last'.obj) :
                  cache'[d] = cache[d]
       /\ (last'.op = "write" /\ ~Failed(last'.error) /\ last'.was.modified) =>
              \A d \in BindingsOfOthers(cache, objs, last'.obj) :
                  /\ write_back_unbind(cache, last'.was)[d] = cache[d]
                  /\ d # last'.id => cache'[d] = cache[d]
      ]_vars

\* The source slot of the object that the last lookup or write was about
\* is closed and holds no bytes.
SourceClosedOnReturn ==
    (/\ last.op \in {"lookup", "write"}
     /\ last.obj # NoObject
     /\ objs[last.obj].alive)
    => (~objs[last.obj].open /\ ~objs[last.obj].buf)

\* A git_object_write that returns an error leaves the object's digest and
\* flags and the cache as they were.
FailedWriteKeepsObject ==
    (last'.op = "write" /\ Failed(last'.error)) =>
        /\ objs'[last'.obj].id = objs[last'.obj].id
        /\ objs'[last'.obj].in_memory = objs[last'.obj].in_memory
        /\ objs'[last'.obj].modified = objs[last'.obj].modified
        /\ cache' = cache

\* C23: whenever git_repository_lookup or git_object_write returns, with
\* success or with any error (a failure of the write to the object database
\* after a successful serialization included), the source slot of the
\* object concerned is closed and holds no byte buffer, and when
\* git_object_write returns an error the object's digest, flags and cache
\* binding are unchanged.
C23_SourceClosedOnEveryReturn ==
    []SourceClosedOnReturn /\ [][FailedWriteKeepsObject]_vars

(***************************************************************************)
(* The write buffer of a source slot.  The buffer is a sequence of bytes   *)
(* of the slot's capacity; a byte that nothing wrote yet is Junk.  Sizes   *)
(* are scaled down: the first buffer has OBJECT_BASE_SIZE bytes, and       *)
(* git__malloc has no more than MaxSourceLen bytes to give.                *)
(***************************************************************************)
OBJECT_BASE_SIZE == 2
MaxSourceLen == 8
MaxAppendLen == 2

SourceBytes == {"a", "b"}
AppendInputs == SeqsUpTo(SourceBytes, MaxAppendLen)

\* What the second vsnprintf can render from the used va_list, besides the
\* first render again: nothing, or other bytes.
RerenderInputs == {<<>>, <<"b", "a">>}

Junk(n) == [i \in 1..n |-> "?"]

\* prepare_write on a slot that is not open.
prepare_write_source ==
    [open |-> TRUE, data |-> Junk(OBJECT_BASE_SIZE), len |-> OBJECT_BASE_SIZE,
     written_bytes |-> 0, write_ptr |-> 0]

source_resize(src, allocOk) ==
    LET write_offset == src.write_ptr
        new_size == src.len * 2
    IN IF ~allocOk \/ new_size > MaxSourceLen
       THEN [error |-> GIT_ENOMEM, src |-> src]
       ELSE [error |-> GIT_SUCCESS,
             src |-> [src EXCEPT
                         !.data = SubSeq(src.data, 1, src.written_bytes)
                                      \o Junk(new_size - src.written_bytes),
                         !.len = new_size,
                         !.write_ptr = write_offset]]

\* while (source->written_bytes + len >= source->raw.len) source_resize
RECURSIVE source_resize_loop(_, _, _)
source_resize_loop(src, len, allocOk) ==
    IF src.written_bytes + len >= src.len
    THEN LET r == source_resize(src, allocOk)
         IN IF Failed(r.error) THEN r ELSE source_resize_loop(r.src, len, allocOk)
    ELSE [error |-> GIT_SUCCESS, src |-> src]

\* memcpy(source->write_ptr, bytes, len)
memcpy_at(data, at, bytes) ==
    SubSeq(data, 1, at) \o bytes \o SubSeq(data, at + Len(bytes) + 1, Len(data))

git__source_write(src, bytes, allocOk) ==
    LET len == Len(bytes)
        r == source_resize_loop(src, len, allocOk)
    IN IF Failed(r.error) THEN [error |-> GIT_ENOMEM, src |-> r.src]
       ELSE [error |-> GIT_SUCCESS,
             src |-> [r.src EXCEPT
                         !.data = memcpy_at(r.src.data, r.src.write_ptr, bytes),
                         !.write_ptr = @ + len,
                         !.written_bytes = @ + len]]

\* vsnprintf(source->write_ptr, source->raw.len - source->written_bytes, ...):
\* as much of the text as fits before a closing NUL.
vsnprintf_at(src, text) ==
    LET size == src.len - src.written_bytes
        fits == IF Len(text) < size THEN Len(text) ELSE size - 1
    IN memcpy_at(src.data, src.write_ptr, SubSeq(text, 1, fits) \o <<NUL>>)

\* text is what the format and its arguments render to.  After a resize
\* the same va_list is handed to vsnprintf a second time without va_copy:
\* its value is indeterminate, and rerender is what that call renders.
git__source_printf(src, text, rerender, allocOk) ==
    LET len == Len(text)
        first == [src EXCEPT !.data = vsnprintf_at(src, text)]
        r == source_resize_loop(first, len, allocOk)
        did_resize == r.src.len # src.len
        second == IF did_resize
                  THEN [r.src EXCEPT !.data = vsnprintf_at(r.src, rerender)]
                  ELSE r.src
    IN IF Failed(r.error) THEN [error |-> GIT_ENOMEM, src |-> r.src]
       ELSE [error |-> GIT_SUCCESS,
             src |-> [second EXCEPT !.write_ptr = @ + len,
                                    !.written_bytes = @ + len]]

\* appended: the bytes of every append that succeeded so far, in order.
Appended(r, call, bytes) ==
    /\ source' = r.src
    /\ last' = [call EXCEPT !.error = r.error,
                            !.appended = IF Failed(r.error) THEN last.appended
                                         ELSE last.appended \o bytes]
    /\ UNCHANGED <<odbVars, repoVars, running>>

Call_git__source_write(bytes, allocOk) ==
    /\ running
    /\ source.open
    /\ \E r \in {git__source_write(source, bytes, allocOk)} :
          Appended(r, [op |-> "source_write", error |-> GIT_SUCCESS, id |-> ZeroOid,
                       obj |-> NoObject, appended |-> <<>>,
                       resized |-> r.src.len # source.len], bytes)

Call_git__source_printf(text, rerender, allocOk) ==
    /\ running
    /\ source.open
    /\ \E r \in {git__source_printf(source, text, rerender, allocOk)} :
          Appended(r, [op |-> "source_printf", error |-> GIT_SUCCESS, id |-> ZeroOid,
                       obj |-> NoObject, appended |-> <<>>,
                       resized |-> r.src.len # source.len], text)

(***************************************************************************)
(* SpecSource: a slot that prepare_write has just set up, and every        *)
(* sequence of appends to it.                                              *)
(***************************************************************************)
InitSource ==
    /\ backends = OpenedBackends
    /\ dbBackends = [o \in OdbIds |-> <<>>]
    /\ inserted = [o \in OdbIds |-> <<>>]
    /\ objs = [h \in ObjIds |-> DeadObj]
    /\ cache = EmptyCache
    /\ last = [op |-> "prepare_write", error |-> GIT_SUCCESS, id |-> ZeroOid,
               obj |-> NoObject, appended |-> <<>>,
               resized |-> FALSE]
    /\ running = TRUE
    /\ source = prepare_write_source

NextSource ==
    \/ \E bytes \in AppendInputs, allocOk \in BOOLEAN :
           Call_git__source_write(bytes, allocOk)
    \/ \E text \in AppendInputs, allocOk \in BOOLEAN :
       \E rerender \in {text} \cup RerenderInputs :
           Call_git__source_printf(text, rerender, allocOk)

SpecSource == InitSource /\ [][NextSource]_vars

\* OBJECT_BASE_SIZE times a power of two.
RECURSIVE IsBaseTimesPowerOfTwo(_)
IsBaseTimesPowerOfTwo(n) ==
    \/ n = OBJECT_BASE_SIZE
    \/ n > OBJECT_BASE_SIZE /\ n % 2 = 0 /\ IsBaseTimesPowerOfTwo(n \div 2)

====
